---- MODULE Spec2Model ----
(***************************************************************************)
(* milter-addmessageid: a milter that adds a Message-ID header to mails    *)
(* that carry none.  The module models                                     *)
(*   - the MessageIDMilter callbacks (header, eob, close, abort) on the    *)
(*     per-connection instances the thread factory creates,                *)
(*   - create_messageid with str(), bytes.hex() and bytes.lower() computed *)
(*     character by character,                                             *)
(*   - run_messageidmilter: directory creation, factory construction,      *)
(*     signal handlers, factory.run() and the fault handler.               *)
(* Byte strings are sequences of one-character strings.                    *)
(***************************************************************************)
EXTENDS Integers, Sequences, FiniteSets, TLC

(***************************************************************************)
(* Bounds of the model.                                                    *)
(***************************************************************************)
\* headers of unfinished transactions, over all connections
MaxHdrs == 2
\* end-of-message callbacks the MTA sends, over all connections
MaxEob == 2

(***************************************************************************)
(* Program constants.                                                      *)
(***************************************************************************)
\* os.urandom(8)
URANDOM_BYTES == 8

\* lm.CONTINUE, and the None a method without a return statement yields
CONTINUE == "CONTINUE"
None == "None"

(***************************************************************************)
(* Byte-string helpers.                                                    *)
(***************************************************************************)
UpperCase == <<"A","B","C","D","E","F","G","H","I","J","K","L","M",
               "N","O","P","Q","R","S","T","U","V","W","X","Y","Z">>
LowerCase == <<"a","b","c","d","e","f","g","h","i","j","k","l","m",
               "n","o","p","q","r","s","t","u","v","w","x","y","z">>
DecDigits == <<"0","1","2","3","4","5","6","7","8","9">>
HexDigits == <<"0","1","2","3","4","5","6","7","8","9",
               "a","b","c","d","e","f">>

\* bytes.lower() on one byte: ASCII upper-case letters map to lower case,
\* every other byte is kept
lower_byte(c) ==
    IF \E i \in 1..Len(UpperCase) : UpperCase[i] = c
    THEN LowerCase[CHOOSE i \in 1..Len(UpperCase) : UpperCase[i] = c]
    ELSE c

\* key.lower()
lower(key) == [i \in 1..Len(key) |-> lower_byte(key[i])]

\* str(n) for an int n
RECURSIVE str_nat(_)
str_nat(n) ==
    IF n < 10 THEN <<DecDigits[n + 1]>>
    ELSE Append(str_nat(n \div 10), DecDigits[(n % 10) + 1])

str(n) == IF n < 0 THEN <<"-">> \o str_nat(0 - n) ELSE str_nat(n)

\* bytes.hex(): two lower-case hexadecimal digits per byte, high nibble first
RECURSIVE hex(_)
hex(bytes) ==
    IF bytes = <<>> THEN <<>>
    ELSE <<HexDigits[(Head(bytes) \div 16) + 1],
           HexDigits[(Head(bytes) % 16) + 1]>> \o hex(Tail(bytes))

\* b"message-id", the literal header() compares with
MESSAGE_ID_LOWER == <<"m","e","s","s","a","g","e","-","i","d">>
\* b"Message-ID", the key eob() adds
MESSAGE_ID_KEY == <<"M","e","s","s","a","g","e","-","I","D">>

(***************************************************************************)
(* create_messageid.  Its four readings of the environment are arguments:  *)
(*   now     int(time.time() * 1000000)                                    *)
(*   rnd     os.urandom(8), the first draw                                 *)
(*   fqdn    socket.getfqdn()                                              *)
(*   rnd2    os.urandom(8), the draw made only when fqdn is empty          *)
(***************************************************************************)
\* as create_messageid, but an empty fqdn is replaced by random_part: no
\* second draw is made
create_messageid_reuse(now, rnd, fqdn, rnd2) ==
    LET microseconds == str(now)
        random_part == hex(rnd)
        domain == IF fqdn = <<>> THEN random_part ELSE fqdn
    IN  <<" ", "<">> \o microseconds \o <<".">> \o random_part
            \o <<"@">> \o domain \o <<">">>

create_messageid(now, rnd, fqdn, rnd2) ==
    LET microseconds == str(now)
        random_part == hex(rnd)
        domain == IF fqdn = <<>> THEN hex(rnd2) ELSE fqdn
    IN  <<" ", "<">> \o microseconds \o <<".">> \o random_part
            \o <<"@">> \o domain \o <<">">>

(***************************************************************************)
(* The environment's inputs.                                               *)
(***************************************************************************)
\* connections the MTA opens; the factory creates one milter instance each
Sessions == {"c1", "c2"}

FROM == <<"F","r","o","m">>
MESSAGE_ID_UPPER == <<"M","E","S","S","A","G","E","-","I","D">>
MESSAGE_ID_MIXED == <<"M","e","s","s","a","g","e","-","I","d">>
MESSAGE_IDS == <<"M","e","s","s","a","g","e","-","I","D","s">>

\* header names the MTA delivers
Names == {MESSAGE_ID_MIXED, FROM}
\* header names of the one-connection specification
ConnNames == {MESSAGE_ID_LOWER, MESSAGE_ID_KEY, MESSAGE_ID_UPPER,
              FROM, <<>>, MESSAGE_IDS}
\* header values the MTA delivers
Values == {<<>>, <<"<","x","@","y",">">>}

\* results of os.urandom(8)
ZeroBytes == [i \in 1..URANDOM_BYTES |-> 0]
FFBytes == [i \in 1..URANDOM_BYTES |-> 255]
RampBytes == [i \in 1..URANDOM_BYTES |-> (32 * i - 31) + 2 * (i - 1)]
MixBytes == [i \in 1..URANDOM_BYTES |-> (37 * i * i + 11) % 256]
Randoms == {RampBytes}
GenRandoms == {ZeroBytes, FFBytes, RampBytes, MixBytes}

\* results of socket.getfqdn()
MX == <<"m","x">>
MAIL_EXAMPLE == <<"m","a","i","l",".","e","x","a","m","p","l","e",".","o","r","g">>
LOCALHOST9 == <<"h","0","s","t","-","9">>
Fqdns == {MX}
ConnFqdns == {<<>>, MX}
GenFqdns == {<<>>, MX, MAIL_EXAMPLE, LOCALHOST9}

\* results of int(time.time() * 1000000)
Clocks == {1700000123}
GenClocks == {0, 7, 10, 909, 1700000123, 2147483647}

\* results of os.mkdir(socketpath, 0o755)
MkdirResults == {"created", "EEXIST", "EACCES"}

Signals == {"SIGINT", "SIGQUIT", "SIGTERM"}
\* the order in which run_messageidmilter installs the handlers
SignalOrder == <<"SIGINT", "SIGQUIT", "SIGTERM">>

(***************************************************************************)
(* State.                                                                  *)
(***************************************************************************)
VARIABLES
    pc,             \* where run_messageidmilter is
    mkdir_result,   \* what os.mkdir did
    factory,        \* the ThreadFactory: "none", "created", "running", "closed"
    handlers,       \* signals whose handler is sighandler
    closes,         \* factory.close() calls made
    stderr,         \* reports printed to sys.stderr
    exit_status,    \* how the process ended
    conns,          \* connections accepted: each has a MessageIDMilter instance
    has_messageid,  \* MessageIDMilter.has_messageid of each instance
    added,          \* the addHeader(key, val) calls each instance made
    stdout,         \* the log() records each instance's thread printed
    hdrs,           \* header names delivered since the transaction began
    nEob,           \* eob callbacks each instance received
    last,           \* the latest callback: its instance, its name, the flag
                    \* before it, the header names of its transaction, the
                    \* value it returned, the addHeader calls it made and
                    \* its steps
    draw,           \* the readings the latest create_messageid call made
    genout          \* the value the latest create_messageid call returned

main_vars == <<pc, mkdir_result, factory, handlers, closes, stderr, exit_status>>
sess_vars == <<conns, has_messageid, added, stdout, hdrs, nEob, last, draw, genout>>
vars == <<pc, mkdir_result, factory, handlers, closes, stderr, exit_status,
          conns, has_messageid, added, stdout, hdrs, nEob, last, draw, genout>>

NoCall == [sess |-> "none", op |-> "none", was |-> FALSE, tx |-> <<>>,
           ret |-> None, addHeader |-> <<>>, steps |-> <<>>]
NoDraw == [now |-> 0, rnd |-> <<>>, fqdn |-> <<>>, rnd2 |-> <<>>]

Init ==
    /\ pc = "mkdir"
    /\ mkdir_result = "none"
    /\ factory = "none"
    /\ handlers = {}
    /\ closes = 0
    /\ stderr = 0
    /\ exit_status = "running"
    /\ conns = {}
    /\ has_messageid = [s \in Sessions |-> FALSE]
    /\ added = [s \in Sessions |-> <<>>]
    /\ stdout = [s \in Sessions |-> <<>>]
    /\ hdrs = [s \in Sessions |-> <<>>]
    /\ nEob = [s \in Sessions |-> 0]
    /\ last = NoCall
    /\ draw = NoDraw
    /\ genout = <<>>

(***************************************************************************)
(* MessageIDMilter's callbacks, as functions of the instance's flag.  Each *)
(* yields the flag afterwards, the value returned, the addHeader and log   *)
(* calls made, and its steps in the order the code takes them, each with   *)
(* the value self.has_messageid has at that step.                          *)
(***************************************************************************)
\* as header, but comparing key itself with b"message-id"
header_case_sensitive(flag, key, val) ==
    [has_messageid |-> IF key = MESSAGE_ID_LOWER THEN TRUE ELSE flag,
     ret |-> CONTINUE,
     addHeader |-> <<>>,
     log |-> <<>>,
     steps |-> IF key = MESSAGE_ID_LOWER
               THEN <<[do |-> "set", flag |-> TRUE]>>
               ELSE <<>>]

\* as header, but answering ACCEPT once a Message-ID header is seen
header_accept(flag, key, val) ==
    [has_messageid |-> IF lower(key) = MESSAGE_ID_LOWER THEN TRUE ELSE flag,
     ret |-> IF lower(key) = MESSAGE_ID_LOWER THEN "ACCEPT" ELSE CONTINUE,
     addHeader |-> <<>>,
     log |-> <<>>,
     steps |-> IF lower(key) = MESSAGE_ID_LOWER
               THEN <<[do |-> "set", flag |-> TRUE]>>
               ELSE <<>>]

\* as header, but assigning the comparison itself: a later header that does
\* not match clears the flag
header_assign(flag, key, val) ==
    [has_messageid |-> lower(key) = MESSAGE_ID_LOWER,
     ret |-> CONTINUE,
     addHeader |-> <<>>,
     log |-> <<>>,
     steps |-> IF lower(key) = MESSAGE_ID_LOWER
               THEN <<[do |-> "set", flag |-> TRUE]>>
               ELSE <<>>]

\* as header, but a Message-ID header with an empty value does not count
header_nonempty(flag, key, val) ==
    [has_messageid |-> IF lower(key) = MESSAGE_ID_LOWER /\ val # <<>>
                       THEN TRUE ELSE flag,
     ret |-> CONTINUE,
     addHeader |-> <<>>,
     log |-> <<>>,
     steps |-> IF lower(key) = MESSAGE_ID_LOWER /\ val # <<>>
               THEN <<[do |-> "set", flag |-> TRUE]>>
               ELSE <<>>]

\* MessageIDMilter.header(key, val, cmdDict)
header(flag, key, val) ==
    [has_messageid |-> IF lower(key) = MESSAGE_ID_LOWER THEN TRUE ELSE flag,
     ret |-> CONTINUE,
     addHeader |-> <<>>,
     log |-> <<>>,
     steps |-> IF lower(key) = MESSAGE_ID_LOWER
               THEN <<[do |-> "set", flag |-> TRUE]>>
               ELSE <<>>]

\* as eob, but the branch that finds the flag set leaves it set
eob_no_reset(flag, now, rnd, fqdn, rnd2) ==
    IF flag
    THEN [has_messageid |-> flag,
          ret |-> CONTINUE,
          addHeader |-> <<>>,
          log |-> <<>>,
          generated |-> <<>>,
          steps |-> <<>>]
    ELSE LET key == MESSAGE_ID_KEY
             val == create_messageid(now, rnd, fqdn, rnd2)
         IN  [has_messageid |-> flag,
              ret |-> CONTINUE,
              addHeader |-> << <<key, val>> >>,
              log |-> << <<key, val>> >>,
              generated |-> <<val>>,
              steps |-> <<[do |-> "create_messageid", flag |-> flag],
                          [do |-> "log", flag |-> flag],
                          [do |-> "addHeader", flag |-> flag]>>]

\* as eob, but calling addHeader(val, key)
eob_swapped(flag, now, rnd, fqdn, rnd2) ==
    IF flag
    THEN [has_messageid |-> FALSE,
          ret |-> CONTINUE,
          addHeader |-> <<>>,
          log |-> <<>>,
          generated |-> <<>>,
          steps |-> <<[do |-> "reset", flag |-> FALSE]>>]
    ELSE LET key == MESSAGE_ID_KEY
             val == create_messageid(now, rnd, fqdn, rnd2)
         IN  [has_messageid |-> flag,
              ret |-> CONTINUE,
              addHeader |-> << <<val, key>> >>,
              log |-> << <<key, val>> >>,
              generated |-> <<val>>,
              steps |-> <<[do |-> "create_messageid", flag |-> flag],
                          [do |-> "log", flag |-> flag],
                          [do |-> "addHeader", flag |-> flag]>>]

\* as eob, but calling addHeader a second time after the first
eob_twice(flag, now, rnd, fqdn, rnd2) ==
    IF flag
    THEN [has_messageid |-> FALSE,
          ret |-> CONTINUE,
          addHeader |-> <<>>,
          log |-> <<>>,
          generated |-> <<>>,
          steps |-> <<[do |-> "reset", flag |-> FALSE]>>]
    ELSE LET key == MESSAGE_ID_KEY
             val == create_messageid(now, rnd, fqdn, rnd2)
         IN  [has_messageid |-> flag,
              ret |-> CONTINUE,
              addHeader |-> << <<key, val>>, <<key, val>> >>,
              log |-> << <<key, val>> >>,
              generated |-> <<val>>,
              steps |-> <<[do |-> "create_messageid", flag |-> flag],
                          [do |-> "log", flag |-> flag],
                          [do |-> "addHeader", flag |-> flag],
                          [do |-> "addHeader", flag |-> flag]>>]

\* as eob, but calling addHeader before log
eob_add_first(flag, now, rnd, fqdn, rnd2) ==
    IF flag
    THEN [has_messageid |-> FALSE,
          ret |-> CONTINUE,
          addHeader |-> <<>>,
          log |-> <<>>,
          generated |-> <<>>,
          steps |-> <<[do |-> "reset", flag |-> FALSE]>>]
    ELSE LET key == MESSAGE_ID_KEY
             val == create_messageid(now, rnd, fqdn, rnd2)
         IN  [has_messageid |-> flag,
              ret |-> CONTINUE,
              addHeader |-> << <<key, val>> >>,
              log |-> << <<key, val>> >>,
              generated |-> <<val>>,
              steps |-> <<[do |-> "create_messageid", flag |-> flag],
                          [do |-> "addHeader", flag |-> flag],
                          [do |-> "log", flag |-> flag]>>]

\* as eob, but calling create_messageid before the flag is tested
eob_eager(flag, now, rnd, fqdn, rnd2) ==
    IF flag
    THEN [has_messageid |-> FALSE,
          ret |-> CONTINUE,
          addHeader |-> <<>>,
          log |-> <<>>,
          generated |-> <<create_messageid(now, rnd, fqdn, rnd2)>>,
          steps |-> <<[do |-> "create_messageid", flag |-> flag],
                          [do |-> "reset", flag |-> FALSE]>>]
    ELSE LET key == MESSAGE_ID_KEY
             val == create_messageid(now, rnd, fqdn, rnd2)
         IN  [has_messageid |-> flag,
              ret |-> CONTINUE,
              addHeader |-> << <<key, val>> >>,
              log |-> << <<key, val>> >>,
              generated |-> <<val>>,
              steps |-> <<[do |-> "create_messageid", flag |-> flag],
                          [do |-> "log", flag |-> flag],
                          [do |-> "addHeader", flag |-> flag]>>]

\* MessageIDMilter.eob(cmdDict); create_messageid runs on the else branch only
eob(flag, now, rnd, fqdn, rnd2) ==
    IF flag
    THEN [has_messageid |-> FALSE,
          ret |-> CONTINUE,
          addHeader |-> <<>>,
          log |-> <<>>,
          generated |-> <<>>,
          steps |-> <<[do |-> "reset", flag |-> FALSE]>>]
    ELSE LET key == MESSAGE_ID_KEY
             val == create_messageid(now, rnd, fqdn, rnd2)
         IN  [has_messageid |-> flag,
              ret |-> CONTINUE,
              addHeader |-> << <<key, val>> >>,
              log |-> << <<key, val>> >>,
              generated |-> <<val>>,
              steps |-> <<[do |-> "create_messageid", flag |-> flag],
                          [do |-> "log", flag |-> flag],
                          [do |-> "addHeader", flag |-> flag]>>]

\* as eob_raises, but the else branch first marks the message as carrying
\* an identifier
eob_raises_marked(flag, now, rnd, fqdn, rnd2, at) ==
    LET key == MESSAGE_ID_KEY
        val == create_messageid(now, rnd, fqdn, rnd2)
    IN  [has_messageid |-> TRUE,
         ret |-> "raised",
         addHeader |-> <<>>,
         log |-> IF at = "addHeader" THEN << <<key, val>> >> ELSE <<>>,
         generated |-> IF at = "create_messageid" THEN <<>> ELSE <<val>>,
         steps |-> IF at = "create_messageid"
                   THEN <<[do |-> "create_messageid", flag |-> TRUE]>>
                   ELSE IF at = "log"
                   THEN <<[do |-> "create_messageid", flag |-> TRUE],
                          [do |-> "log", flag |-> TRUE]>>
                   ELSE <<[do |-> "create_messageid", flag |-> TRUE],
                          [do |-> "log", flag |-> TRUE],
                          [do |-> "addHeader", flag |-> TRUE]>>]

\* eob's else branch when the call named at (create_messageid, log or
\* addHeader) raises: the calls before it are made, the exception leaves eob
eob_raises(flag, now, rnd, fqdn, rnd2, at) ==
    LET key == MESSAGE_ID_KEY
        val == create_messageid(now, rnd, fqdn, rnd2)
    IN  [has_messageid |-> flag,
         ret |-> "raised",
         addHeader |-> <<>>,
         log |-> IF at = "addHeader" THEN << <<key, val>> >> ELSE <<>>,
         generated |-> IF at = "create_messageid" THEN <<>> ELSE <<val>>,
         steps |-> IF at = "create_messageid"
                   THEN <<[do |-> "create_messageid", flag |-> flag]>>
                   ELSE IF at = "log"
                   THEN <<[do |-> "create_messageid", flag |-> flag],
                          [do |-> "log", flag |-> flag]>>
                   ELSE <<[do |-> "create_messageid", flag |-> flag],
                          [do |-> "log", flag |-> flag],
                          [do |-> "addHeader", flag |-> flag]>>]

\* as close, but without the reset
close_noop(flag) ==
    [has_messageid |-> flag, ret |-> None, addHeader |-> <<>>, log |-> <<>>,
     steps |-> <<>>]

\* MessageIDMilter.close()
close(flag) ==
    [has_messageid |-> FALSE, ret |-> None, addHeader |-> <<>>, log |-> <<>>,
     steps |-> <<[do |-> "reset", flag |-> FALSE]>>]

\* as abort, but without the reset
abort_noop(flag) ==
    [has_messageid |-> flag, ret |-> None, addHeader |-> <<>>, log |-> <<>>,
     steps |-> <<>>]

\* MessageIDMilter.abort()
abort(flag) ==
    [has_messageid |-> FALSE, ret |-> None, addHeader |-> <<>>, log |-> <<>>,
     steps |-> <<[do |-> "reset", flag |-> FALSE]>>]

(***************************************************************************)
(* The callbacks the protocol engine dispatches on a connection's thread.  *)
(***************************************************************************)
RECURSIVE SumOver(_, _)
SumOver(f, S) ==
    IF S = {} THEN 0
    ELSE LET x == CHOOSE x \in S : TRUE IN f[x] + SumOver(f, S \ {x})

\* headers held in unfinished transactions, and eob callbacks sent so far
HdrsHeld == SumOver([s \in Sessions |-> Len(hdrs[s])], Sessions)
EobsSent == SumOver(nEob, Sessions)

\* the process runs and connection s has its instance
Serving(s) == pc # "exited" /\ s \in conns

\* the instance of s takes the outcome r of a callback
Apply(s, r) ==
    /\ has_messageid' = [has_messageid EXCEPT ![s] = r.has_messageid]
    /\ added' = [added EXCEPT ![s] = @ \o r.addHeader]
    /\ stdout' = [stdout EXCEPT ![s] = @ \o r.log]

\* the record of callback op on s with outcome r, tx its transaction's headers
Call(s, op, tx, r) ==
    [sess |-> s, op |-> op, was |-> has_messageid[s], tx |-> tx,
     ret |-> r.ret, addHeader |-> r.addHeader, steps |-> r.steps]

\* the factory accepts connection s and constructs its MessageIDMilter
Accept(s) ==
    /\ pc = "run"
    /\ factory = "running"
    /\ s \notin conns
    /\ conns' = conns \cup {s}
    /\ has_messageid' = [has_messageid EXCEPT ![s] = FALSE]
    /\ UNCHANGED <<added, stdout, hdrs, nEob, last, draw, genout>>
    /\ UNCHANGED main_vars

\* as Header, but the flag is written to the class, which every instance
\* still reading the class attribute sees
HeaderClassAttribute(s, key, val) ==
    /\ Serving(s)
    /\ HdrsHeld < MaxHdrs
    /\ LET r == header(has_messageid[s], key, val)
       IN  /\ has_messageid' = [t \in Sessions |->
                                  has_messageid[t] \/ r.has_messageid]
           /\ added' = [added EXCEPT ![s] = @ \o r.addHeader]
           /\ stdout' = [stdout EXCEPT ![s] = @ \o r.log]
           /\ last' = Call(s, "header", Append(hdrs[s], key), r)
    /\ hdrs' = [hdrs EXCEPT ![s] = Append(@, key)]
    /\ UNCHANGED <<conns, nEob, draw, genout>>
    /\ UNCHANGED main_vars

Header(s, key, val) ==
    /\ Serving(s)
    /\ HdrsHeld < MaxHdrs
    /\ LET r == header(has_messageid[s], key, val)
       IN  /\ Apply(s, r)
           /\ last' = Call(s, "header", Append(hdrs[s], key), r)
    /\ hdrs' = [hdrs EXCEPT ![s] = Append(@, key)]
    /\ UNCHANGED <<conns, nEob, draw, genout>>
    /\ UNCHANGED main_vars

Eob(s, now, rnd, fqdn, rnd2) ==
    /\ Serving(s)
    /\ EobsSent < MaxEob
    /\ LET r == eob(has_messageid[s], now, rnd, fqdn, rnd2)
       IN  /\ Apply(s, r)
           /\ last' = Call(s, "eob", hdrs[s], r)
    /\ hdrs' = [hdrs EXCEPT ![s] = <<>>]
    /\ nEob' = [nEob EXCEPT ![s] = @ + 1]
    /\ UNCHANGED <<conns, draw, genout>>
    /\ UNCHANGED main_vars

\* eob on s finds the flag clear and one of its calls raises
EobRaises(s, now, rnd, fqdn, rnd2, at) ==
    /\ Serving(s)
    /\ EobsSent < MaxEob
    /\ ~has_messageid[s]
    /\ LET r == eob_raises(has_messageid[s], now, rnd, fqdn, rnd2, at)
       IN  /\ Apply(s, r)
           /\ last' = Call(s, "eob", hdrs[s], r)
    /\ hdrs' = [hdrs EXCEPT ![s] = <<>>]
    /\ nEob' = [nEob EXCEPT ![s] = @ + 1]
    /\ UNCHANGED <<conns, draw, genout>>
    /\ UNCHANGED main_vars

Close(s) ==
    /\ Serving(s)
    /\ LET r == close(has_messageid[s])
       IN  /\ Apply(s, r)
           /\ last' = Call(s, "close", hdrs[s], r)
    /\ hdrs' = [hdrs EXCEPT ![s] = <<>>]
    /\ UNCHANGED <<conns, nEob, draw, genout>>
    /\ UNCHANGED main_vars

Abort(s) ==
    /\ Serving(s)
    /\ LET r == abort(has_messageid[s])
       IN  /\ Apply(s, r)
           /\ last' = Call(s, "abort", hdrs[s], r)
    /\ hdrs' = [hdrs EXCEPT ![s] = <<>>]
    /\ UNCHANGED <<conns, nEob, draw, genout>>
    /\ UNCHANGED main_vars

(***************************************************************************)
(* run_messageidmilter.                                                    *)
(***************************************************************************)
\* try: os.mkdir(socketpath, 0o755) / except OSError: pass
Mkdir(result) ==
    /\ pc = "mkdir"
    /\ mkdir_result' = result
    /\ pc' = "factory"
    /\ UNCHANGED <<factory, handlers, closes, stderr, exit_status>>
    /\ UNCHANGED sess_vars

\* factory = lm.ThreadFactory(socketpath + "/" + socketname, ...)
CreateFactory ==
    /\ pc = "factory"
    /\ factory' = "created"
    /\ pc' = "signals"
    /\ UNCHANGED <<mkdir_result, handlers, closes, stderr, exit_status>>
    /\ UNCHANGED sess_vars

\* signal.signal(SIGINT | SIGQUIT | SIGTERM, sighandler), one call a step
InstallHandler ==
    /\ pc = "signals"
    /\ handlers' = handlers \cup {SignalOrder[Cardinality(handlers) + 1]}
    /\ pc' = IF Cardinality(handlers') = Len(SignalOrder) THEN "try" ELSE "signals"
    /\ UNCHANGED <<mkdir_result, factory, closes, stderr, exit_status>>
    /\ UNCHANGED sess_vars

\* factory.run() is called and accepts connections
FactoryRun ==
    /\ pc = "try"
    /\ factory' = "running"
    /\ pc' = "run"
    /\ UNCHANGED <<mkdir_result, handlers, closes, stderr, exit_status>>
    /\ UNCHANGED sess_vars

\* factory.run() raises an Exception: control enters the except clause
Fault ==
    /\ pc \in {"try", "run"}
    /\ pc' = "report"
    /\ UNCHANGED <<mkdir_result, factory, handlers, closes, stderr, exit_status>>
    /\ UNCHANGED sess_vars

\* as Report, but printing nothing
ReportSilent ==
    /\ pc = "report"
    /\ pc' = "release"
    /\ UNCHANGED <<mkdir_result, factory, handlers, closes, stderr, exit_status>>
    /\ UNCHANGED sess_vars

\* print("EXCEPTION OCCURRED: ...", file=sys.stderr); sys.stderr.flush()
Report ==
    /\ pc = "report"
    /\ stderr' = stderr + 1
    /\ pc' = "release"
    /\ UNCHANGED <<mkdir_result, factory, handlers, closes, exit_status>>
    /\ UNCHANGED sess_vars

\* factory.close() in the except clause
Release ==
    /\ pc = "release"
    /\ closes' = closes + 1
    /\ factory' = "closed"
    /\ pc' = "reraise"
    /\ UNCHANGED <<mkdir_result, handlers, stderr, exit_status>>
    /\ UNCHANGED sess_vars

\* raise: the Exception leaves run_messageidmilter and ends the process
Reraise ==
    /\ pc = "reraise"
    /\ pc' = "exited"
    /\ exit_status' = "Exception"
    /\ UNCHANGED <<mkdir_result, factory, handlers, closes, stderr>>
    /\ UNCHANGED sess_vars

\* as sighandler, but exiting without factory.close()
sighandler_exit_only(sig) ==
    /\ pc # "exited"
    /\ sig \in handlers
    /\ pc' = "exited"
    /\ exit_status' = "SystemExit(1)"
    /\ UNCHANGED <<mkdir_result, factory, handlers, closes, stderr>>
    /\ UNCHANGED sess_vars

\* a signal with sighandler installed: factory.close(); sys.exit(1).  The
\* SystemExit is no Exception, so no except clause of the function takes it.
sighandler(sig) ==
    /\ pc # "exited"
    /\ sig \in handlers
    /\ closes' = closes + 1
    /\ factory' = "closed"
    /\ pc' = "exited"
    /\ exit_status' = "SystemExit(1)"
    /\ UNCHANGED <<mkdir_result, handlers, stderr>>
    /\ UNCHANGED sess_vars

\* a signal whose handler is not installed yet ends the process at once
DefaultSignal(sig) ==
    /\ pc # "exited"
    /\ sig \notin handlers
    /\ pc' = "exited"
    /\ exit_status' = sig
    /\ UNCHANGED <<mkdir_result, factory, handlers, closes, stderr>>
    /\ UNCHANGED sess_vars

(***************************************************************************)
(* create_messageid on its own: one call with the given readings.          *)
(***************************************************************************)
Generate(now, rnd, fqdn, rnd2) ==
    /\ draw' = [now |-> now, rnd |-> rnd, fqdn |-> fqdn,
                rnd2 |-> IF fqdn = <<>> THEN rnd2 ELSE <<>>]
    /\ genout' = create_messageid(now, rnd, fqdn, rnd2)
    /\ UNCHANGED <<conns, has_messageid, added, stdout, hdrs, nEob, last>>
    /\ UNCHANGED main_vars

(***************************************************************************)
(* Specifications.                                                         *)
(***************************************************************************)
Main ==
    \/ \E result \in MkdirResults : Mkdir(result)
    \/ CreateFactory
    \/ InstallHandler
    \/ FactoryRun
    \/ Fault
    \/ Report
    \/ Release
    \/ Reraise
    \/ \E sig \in Signals : sighandler(sig)
    \/ \E sig \in Signals : DefaultSignal(sig)

\* the whole program: startup, faults, signals, and every connection
Next ==
    \/ Main
    \/ \E s \in Sessions : Accept(s)
    \/ \E s \in Sessions, key \in Names, val \in Values : Header(s, key, val)
    \/ \E s \in Sessions, now \in Clocks, rnd \in Randoms, fqdn \in Fqdns,
          rnd2 \in Randoms : Eob(s, now, rnd, fqdn, rnd2)
    \/ \E s \in Sessions : Close(s)
    \/ \E s \in Sessions : Abort(s)

Spec == Init /\ [][Next]_vars

\* one connection of a process that started and meets no fault and no signal
NextConn ==
    \/ Mkdir("created")
    \/ CreateFactory
    \/ InstallHandler
    \/ FactoryRun
    \/ Accept("c1")
    \/ \E key \in ConnNames, val \in Values : Header("c1", key, val)
    \/ \E now \in Clocks, rnd \in Randoms, fqdn \in ConnFqdns, rnd2 \in {FFBytes} :
          Eob("c1", now, rnd, fqdn, rnd2)
    \/ Close("c1")
    \/ Abort("c1")

SpecConn == Init /\ [][NextConn]_vars

\* the calls of eob's else branch that can raise
EobCalls == {"create_messageid", "log", "addHeader"}

\* one connection whose eob may meet an exception in one of its calls
NextFail ==
    \/ NextConn
    \/ \E now \in Clocks, rnd \in Randoms, fqdn \in ConnFqdns, at \in EobCalls :
          EobRaises("c1", now, rnd, fqdn, FFBytes, at)

SpecFail == Init /\ [][NextFail]_vars

\* create_messageid alone, over its readings of the environment
NextGen ==
    \E now \in GenClocks, rnd \in GenRandoms, fqdn \in GenFqdns, rnd2 \in GenRandoms :
        Generate(now, rnd, fqdn, rnd2)

SpecGen == Init /\ [][NextGen]_vars

(***************************************************************************)
(* Properties.                                                             *)
(***************************************************************************)
\* k equals "message-id" when letter case is ignored: each character is the
\* lower-case or the upper-case letter of that place
IsMessageIdName(k) ==
    /\ Len(k) = Len(MESSAGE_ID_LOWER)
    /\ \A i \in 1..Len(k) : k[i] \in {MESSAGE_ID_LOWER[i], MESSAGE_ID_UPPER[i]}

\* some header name of h is a Message-ID name
HasMessageIdHeader(h) == \E i \in 1..Len(h) : IsMessageIdName(h[i])

\* the identifiers create_messageid can return on a connection
ConnIds ==
    {create_messageid(now, rnd, fqdn, rnd2) :
        now \in Clocks, rnd \in Randoms, fqdn \in ConnFqdns, rnd2 \in {FFBytes}}

\* C1: an eob that ends a transaction in which some header name was
\* "message-id" in any letter case (any value, place or number of times)
\* makes no addHeader call, and has_messageid is false when it returns.
C1_NoInjectionAfterMessageId ==
    (last.op = "eob" /\ HasMessageIdHeader(last.tx))
        => /\ last.addHeader = <<>>
           /\ ~has_messageid[last.sess]

C1_Witness ==
    /\ last.op = "eob"
    /\ Len(last.tx) = 2
    /\ last.tx[1] = FROM
    /\ last.tx[2] = MESSAGE_ID_UPPER
    /\ last.addHeader = <<>>
    /\ ~has_messageid[last.sess]

\* C2: an eob that ends a transaction in which no header name was
\* "message-id" (the empty transaction too) makes exactly one addHeader call,
\* with the name Message-ID and a value create_messageid returned.
C2_OneInjectionWithoutMessageId ==
    (last.op = "eob" /\ ~HasMessageIdHeader(last.tx))
        => /\ Len(last.addHeader) = 1
           /\ last.addHeader[1][1] = <<"M","e","s","s","a","g","e","-","I","D">>
           /\ last.addHeader[1][2] \in ConnIds
           /\ added[last.sess] # <<>>
           /\ added[last.sess][Len(added[last.sess])] = last.addHeader[1]

C2_Witness ==
    /\ last.op = "eob"
    /\ last.tx = <<MESSAGE_IDS, FROM>>
    /\ Len(last.addHeader) = 1
    /\ added[last.sess] = last.addHeader

\* C3: over the transactions of one connection, each ended by eob, abort or
\* close, every eob adds one header if no "message-id" header was delivered
\* since the latest eob, abort, close or construction, and none otherwise,
\* whatever the earlier transactions were.
C3_EachTransactionDecidedAlone ==
    last.op = "eob"
        => Len(last.addHeader) = (IF HasMessageIdHeader(last.tx) THEN 0 ELSE 1)

\* a second eob that injects after a first one that did not, and the reverse
C3_Witness ==
    /\ last.op = "eob"
    /\ nEob[last.sess] = 2
    /\ ~HasMessageIdHeader(last.tx)
    /\ Len(last.addHeader) = 1
    /\ Len(added[last.sess]) = 1

\* C4: after abort or close returns, has_messageid is false whatever it was
\* before, the callback returned no verdict and it made no addHeader call.
C4_AbortAndCloseReset ==
    last.op \in {"abort", "close"}
        => /\ ~has_messageid[last.sess]
           /\ last.ret = None
           /\ last.addHeader = <<>>

C4_Witness ==
    /\ last.op = "abort"
    /\ last.was
    /\ ~has_messageid[last.sess]

\* C6: every header callback (any name, any value) and every eob callback
\* (injecting or not) returns CONTINUE, and no callback returns any other
\* verdict: abort and close return nothing.
C6_AlwaysContinue ==
    /\ last.op \in {"header", "eob"} => last.ret = "CONTINUE"
    /\ last.ret \in {"CONTINUE", "None"}

C6_Witness ==
    /\ last.op = "header"
    /\ IsMessageIdName(last.tx[Len(last.tx)])
    /\ last.ret = "CONTINUE"

\* C7: addHeader is called only by eob and at most once per eob: header,
\* abort and close call it never, and a connection has added at most as many
\* headers as it received eob callbacks.
C7_AddHeaderOnlyInEob ==
    /\ last.op # "eob" => last.addHeader = <<>>
    /\ Len(last.addHeader) <= 1
    /\ \A s \in Sessions : Len(added[s]) <= nEob[s]

\* an abort ends a transaction after an eob that injected
C7_Witness ==
    /\ last.op = "abort"
    /\ last.tx # <<>>
    /\ nEob[last.sess] = 1
    /\ Len(added[last.sess]) = 1

\* C5: with two connections whose callbacks interleave, a callback on one
\* never changes the other's flag, headers or added headers; each flag is set
\* exactly when a "message-id" header came on its own connection since its own
\* latest reset; and each eob injects exactly when its own transaction had no
\* such header: what the connection does when it runs alone.
C5_SessionsIsolated ==
    /\ [](\A s \in Sessions : has_messageid[s] = HasMessageIdHeader(hdrs[s]))
    /\ [](last.op = "eob"
            => ((last.addHeader = <<>>) = HasMessageIdHeader(last.tx)))
    /\ [][\A t \in Sessions :
            t # last'.sess => /\ has_messageid'[t] = has_messageid[t]
                              /\ added'[t] = added[t]
                              /\ hdrs'[t] = hdrs[t]]_vars

\* c2 injects at the end of its own transaction while c1's flag is set
C5_Witness ==
    /\ last.op = "eob"
    /\ last.sess = "c2"
    /\ last.tx = <<FROM>>
    /\ Len(last.addHeader) = 1
    /\ has_messageid["c1"]
    /\ hdrs["c1"] = <<MESSAGE_ID_MIXED>>

\* the value of hexadecimal digit c
HexValue(c) == (CHOOSE i \in 1..Len(HexDigits) : HexDigits[i] = c) - 1

\* h is the bytes b in lower-case hexadecimal, two digits a byte
IsHexOf(h, b) ==
    /\ Len(h) = 2 * Len(b)
    /\ \A i \in 1..Len(h) : \E j \in 1..Len(HexDigits) : HexDigits[j] = h[i]
    /\ \A i \in 1..Len(b) : 16 * HexValue(h[2 * i - 1]) + HexValue(h[2 * i]) = b[i]

\* m is " <" digits "." hex16 "@" token ">", with n digits, hex16 the
\* hexadecimal of the 8 bytes rnd, and a non-empty token
IsMessageId(m, n, rnd, token) ==
    /\ n >= 1
    /\ token # <<>>
    /\ Len(rnd) = 8
    /\ Len(m) = n + Len(token) + 21
    /\ m[1] = " "
    /\ m[2] = "<"
    /\ \A i \in 3..(n + 2) : m[i] \in {"0","1","2","3","4","5","6","7","8","9"}
    /\ m[n + 3] = "."
    /\ IsHexOf(SubSeq(m, n + 4, n + 19), rnd)
    /\ m[n + 20] = "@"
    /\ SubSeq(m, n + 21, Len(m) - 1) = token
    /\ m[Len(m)] = ">"

C9_MkdirFailureAbortsStartup ==
    mkdir_result \notin {"none", "created", "EEXIST"}
        => pc # "run" /\ factory # "running"

\* C11: has_messageid is false at the start of every transaction: on a newly
\* constructed instance, and when an eob returns, whether it found the flag
\* set (no injection) or clear (injection).
C11_FlagFalseAtTransactionStart ==
    /\ \A s \in Sessions : hdrs[s] = <<>> => ~has_messageid[s]
    /\ last.op = "eob" => ~has_messageid[last.sess] /\ hdrs[last.sess] = <<>>

\* an eob that found the flag set has returned
C11_Witness ==
    /\ last.op = "eob"
    /\ last.was
    /\ last.addHeader = <<>>
    /\ ~has_messageid[last.sess]

\* C12: within a transaction the flag is set-only: a header with a matching
\* name sets it, a header with another name leaves it as it was, and only
\* eob, abort and close take it from true to false.
C12_FlagSetOnly ==
    /\ [](last.op = "header"
            => has_messageid[last.sess]
                 = (last.was \/ IsMessageIdName(last.tx[Len(last.tx)])))
    /\ [][\A s \in Sessions :
            (has_messageid[s] /\ ~has_messageid'[s])
                => last'.sess = s /\ last'.op \in {"eob", "abort", "close"}]_vars

\* a header with another name came after the flag was set, and it is still set
C12_Witness ==
    /\ last.op = "header"
    /\ last.was
    /\ last.tx = <<MESSAGE_ID_KEY, FROM>>
    /\ has_messageid[last.sess]

\* C13: header values never influence the instance: the flag, the verdict and
\* the steps of the header callback just delivered are those the callback has
\* with any other value of the same header, so runs that differ only in the
\* values pass through the same flags, verdicts and decisions.
C13_ValuesIgnored ==
    last.op = "header"
        => \A val \in Values :
              LET r == header(last.was, last.tx[Len(last.tx)], val)
              IN  /\ r.has_messageid = has_messageid[last.sess]
                  /\ r.ret = last.ret
                  /\ r.addHeader = last.addHeader
                  /\ r.steps = last.steps

\* a Message-ID header, delivered with the empty or the non-empty value, set
\* the flag
C13_Witness ==
    /\ last.op = "header"
    /\ last.tx = <<MESSAGE_ID_UPPER>>
    /\ ~last.was
    /\ has_messageid[last.sess]

\* how often step d occurs in steps
Count(steps, d) == Cardinality({i \in 1..Len(steps) : steps[i].do = d})

\* C14: on the inject branch of eob the flag is false when the identifier is
\* generated, the log record is written before addHeader is called, and
\* addHeader is the last step before eob returns CONTINUE.
C14_InjectOrder ==
    (last.op = "eob" /\ last.addHeader # <<>>)
        => /\ Len(last.steps) = 3
           /\ last.steps[1].do = "create_messageid"
           /\ ~last.steps[1].flag
           /\ last.steps[2].do = "log"
           /\ last.steps[3].do = "addHeader"
           /\ last.ret = "CONTINUE"
           /\ stdout[last.sess] # <<>>
           /\ stdout[last.sess][Len(stdout[last.sess])] = last.addHeader[1]

C14_Witness ==
    /\ last.op = "eob"
    /\ Len(last.addHeader) = 1
    /\ last.tx = <<FROM>>
    /\ stdout[last.sess] = last.addHeader

\* C15: when create_messageid, log or addHeader raises during eob,
\* has_messageid is false as the exception leaves eob, so the next transaction
\* starts with the flag false and is decided by its own headers alone.
C15_FlagFalseAfterFailedEob ==
    /\ last.ret = "raised" => ~has_messageid[last.sess]
    /\ \A s \in Sessions : hdrs[s] = <<>> => ~has_messageid[s]
    /\ (last.op = "eob" /\ last.ret = "CONTINUE")
          => Len(last.addHeader) = (IF HasMessageIdHeader(last.tx) THEN 0 ELSE 1)

\* addHeader raised in the first eob (logged, nothing added); the second
\* transaction carried a Message-ID header and its eob added nothing
C15_Witness ==
    /\ last.op = "eob"
    /\ last.ret = "CONTINUE"
    /\ nEob[last.sess] = 2
    /\ HasMessageIdHeader(last.tx)
    /\ Len(stdout[last.sess]) = 1
    /\ added[last.sess] = <<>>

\* C16: create_messageid is called once by an eob that finds has_messageid
\* false, and never by header, abort, close or an eob that finds it true.
C16_GenerateOnlyWithoutMessageId ==
    Count(last.steps, "create_messageid")
        = (IF last.op = "eob" /\ ~last.was THEN 1 ELSE 0)

\* an eob that found the flag set, after one that injected
C16_Witness ==
    /\ last.op = "eob"
    /\ last.was
    /\ Count(last.steps, "create_messageid") = 0
    /\ Len(added[last.sess]) = 1

\* the flag of a newly constructed instance: the class attribute
FreshFlag == FALSE

\* the callbacks a connection can receive, with their inputs
ConnCalls ==
    {[op |-> "header", key |-> key, val |-> val] :
        key \in ConnNames, val \in Values}
    \cup {[op |-> "eob", now |-> now, rnd |-> rnd, fqdn |-> fqdn] :
            now \in Clocks, rnd \in Randoms, fqdn \in ConnFqdns}
    \cup {[op |-> "close"], [op |-> "abort"]}

\* what callback c does on an instance whose flag is flag
Outcome(flag, c) ==
    CASE c.op = "header" -> header(flag, c.key, c.val)
      [] c.op = "eob" -> eob(flag, c.now, c.rnd, c.fqdn, FFBytes)
      [] c.op = "close" -> close(flag)
      [] c.op = "abort" -> abort(flag)

\* C17: after abort or close an instance behaves as a new one: every callback
\* gives the verdict, the addHeader calls, the log records and the flag it
\* gives on a new instance, hence so does every sequence of callbacks; and an
\* abort or close that follows an abort or close changes nothing.
C17_ResetIsFresh ==
    /\ [](last.op \in {"abort", "close"}
            => \A c \in ConnCalls :
                  Outcome(has_messageid[last.sess], c) = Outcome(FreshFlag, c))
    /\ [][(last.op \in {"abort", "close"} /\ last'.op \in {"abort", "close"})
            => /\ has_messageid' = has_messageid
               /\ added' = added
               /\ stdout' = stdout
               /\ hdrs' = hdrs
               /\ nEob' = nEob]_vars

\* a close that found the flag set, on an instance that injected before
C17_Witness ==
    /\ last.op = "close"
    /\ last.was
    /\ ~has_messageid[last.sess]
    /\ Len(added[last.sess]) = 1

\* C18: when an Exception escapes factory.run(), the process prints its report
\* to standard error, then calls factory.close(), then re-raises, and so ends
\* with the Exception; once the fault is raised no connection is accepted and
\* factory.run() is not entered again.
C18_FaultPathOrder ==
    /\ [](/\ pc = "report" => stderr = 0 /\ closes = 0
          /\ pc = "release" => stderr = 1 /\ closes = 0 /\ factory # "closed"
          /\ pc = "reraise" => stderr = 1 /\ closes = 1 /\ factory = "closed"
          /\ exit_status = "Exception"
                => pc = "exited" /\ stderr = 1 /\ closes = 1 /\ factory = "closed")
    /\ [][(pc \in {"report", "release", "reraise", "exited"})
            => /\ conns' = conns
               /\ pc' \in {"report", "release", "reraise", "exited"}
               /\ (factory' = factory \/ factory' = "closed")]_vars

\* the Exception ended a process that had accepted a connection
C18_Witness ==
    /\ pc = "exited"
    /\ exit_status = "Exception"
    /\ stderr = 1
    /\ factory = "closed"
    /\ conns # {}

\* C19: once its handlers are installed, SIGINT, SIGQUIT or SIGTERM makes the
\* process call factory.close() and then exit with status 1, without waiting
\* for sessions: a process that has exited while a session is in the middle
\* of a transaction is reachable.
C19_SignalClosesThenExits ==
    /\ exit_status = "SystemExit(1)"
          => pc = "exited" /\ closes >= 1 /\ factory = "closed"
    /\ pc \in {"try", "run"} => handlers = Signals
    /\ exit_status \in Signals
          => exit_status \notin handlers /\ closes = 0

\* the process has exited on a signal while a session holds headers of a
\* transaction no eob has decided
C19_Witness ==
    /\ pc = "exited"
    /\ exit_status = "SystemExit(1)"
    /\ closes = 1
    /\ stderr = 0
    /\ \E s \in conns : hdrs[s] # <<>> /\ Len(added[s]) = nEob[s]

\* C20: the signal path and the fault path do not overlap: whenever a
\* process whose accept loop had started (it accepted a connection) has ended
\* by sighandler's exit or by the re-raised Exception, factory.close() has
\* been called exactly once.
C20_ClosedExactlyOnce ==
    (pc = "exited" /\ conns # {} /\ exit_status \in {"SystemExit(1)", "Exception"})
        => closes = 1

====
